---- MODULE Spec2Model ----
(***************************************************************************)
(* Model of the rfid-access-control API server (event feed, last-event     *)
(* cache, /useradd enrollment), of the onetime passcode issuer and of the  *)
(* tone generator.                                                         *)
(*                                                                         *)
(* The event feed part follows ApiServer.collectLastEvents, getHistory,    *)
(* writeJSONEvent and the /api/events branch of ServeHTTP.  The            *)
(* application bus, the Authenticator and EventList's ordering are not     *)
(* part of the modelled sources; they are modelled from their described    *)
(* contracts, and so are the passphrase generator, the display width, the  *)
(* cycle counter and ToneOn.                                               *)
(***************************************************************************)
EXTENDS Integers, Sequences, FiniteSets, TLC

(* ------------------------------ bounds --------------------------------- *)

\* Number of events the environment posts on the bus while one feed
\* connection is served (Spec, FairSpec).
MaxEvents == 3

\* Number of events posted while one feed connection is served and every
\* goroutine is scheduled (FairSpec).
MaxEventsFair == 2

\* Number of events posted while two feed connections are served, after a
\* first event has been cached (SpecTwo, FairSpecTwo).
MaxEventsTwo == 1

\* Number of HTTP requests served one after the other (SpecHTTP).
MaxRequests == 2

\* Number of onetime credentials issued (SpecOnetime, FairSpecOnetime).
MaxIssues == 1

\* Number of invocations of the passphrase generator answered while one
\* credential is issued (SpecOnetime, FairSpecOnetime).
MaxGenCalls == 3

\* Number of calls of ToneGen::Tone (SpecTone, FairSpecTone).
MaxTones == 2

(* --------------------------- program constants ------------------------- *)

\* make(AppEventChannel, 3): buffer of a feed handler's listener channel.
ChanCap == 3

\* An instant json.Marshal rejects (time.Time outside the years 0..9999):
\* the one way a JsonAppEvent fails to encode.
BadTime == -1

Clients == {"c1", "c2"}

EventTypes == {"ta", "tb"}

\* Sample instants: two that encode, and the one that does not.
Timestamps == {BadTime, 1, 2}

NoEvent == [Timestamp |-> 0, Ev |-> "none", Msg |-> 0]

VARIABLES
    postsLeft,       \* events the environment has yet to post
    published,       \* bus: every event posted so far, in posting order
    collected,       \* events the cache updater received from eventChannel
    subscribers,     \* bus: channels currently subscribed
    chan,            \* chan[c]: contents of handler c's appEvents channel
    upc,             \* collectLastEvents: position in the loop body
    uev,             \* collectLastEvents: ev
    lastEvents,      \* ApiServer.lastEvents
    lastEventsLock,  \* ApiServer.lastEventsLock: "free" or its holder
    pc,              \* pc[c]: position of feed handler c in ServeHTTP
    hist,            \* hist[c]: part of getHistory()'s result still to replay
    snap,            \* snap[c]: the cache entries getHistory() copied
    cur,             \* cur[c]: the event being written by writeJSONEvent
    out,             \* out[c]: what has been written on connection c
    recvd,           \* recvd[c]: events handler c took from appEvents
    connUp,          \* connUp[c]: FALSE once the client is gone
    failed,          \* failed[c]: a transport write on c has failed
    reqsLeft,        \* HTTP requests yet to arrive
    req,             \* the request being served, or the last one served
    hpc,             \* its handler: "idle", "update" or "responded"
    resp,            \* the response written so far: status and body lines
    users,           \* the Authenticator's user records, by badge identifier
    updateCalls,     \* the calls of Authenticator.UpdateUser made so far
    issuesLeft,      \* calls of NewOnetime yet to be made
    opc,             \* NewOnetime: "idle", "genPass" or "made"
    issue,           \* NewOnetime: its arguments now, rfid, authUserCode
    gstack,          \* the frames of genPass, innermost last
    results,         \* what the passphrase generator returned, in order
    gret,            \* the value the last genPass to return has returned
    issued,          \* the Onetime made by the last NewOnetime
    queriedAt,       \* IsExpired: its argument now at the last call, or -1
    expired,         \* IsExpired: its result, at the last call
    tonesLeft,       \* calls of Tone yet to be made
    clock,           \* Clock::now()
    wait_time_,      \* static volatile Clock::cycle_t wait_time_
    start_time_,     \* static volatile Clock::cycle_t start_time_
    ocie2,           \* TIMSK bit OCIE2: the compare-match interrupt is enabled
    pin,             \* TONE_GEN_OUT_PORT bit TONE_GEN_OUT_BIT
    tpc,             \* Tone: position of the foreground code in it
    duration_cycles, \* Tone: its argument, at the last call
    tnow,            \* Tone: the value Clock::now() returned to it
    overlap          \* Tone: whether the last call was made while a tone
                     \* sounded ("none", "sounding"), and whether the
                     \* interrupt then ran during the call ("interrupted")
                     \* and disabled itself ("stopped")

feedVars == <<postsLeft, published, collected, subscribers, chan, upc, uev, lastEvents,
              lastEventsLock, pc, hist, snap, cur, out, recvd, connUp, failed>>

httpVars == <<reqsLeft, req, hpc, resp, users, updateCalls>>

onetimeVars == <<issuesLeft, opc, issue, gstack, results, gret, issued, queriedAt,
                 expired>>

toneVars == <<tonesLeft, clock, wait_time_, start_time_, ocie2, pin, tpc,
              duration_cycles, tnow, overlap>>

earlVars == <<onetimeVars, toneVars>>

vars == <<feedVars, httpVars, earlVars>>

(* ----------------------------- pure functions -------------------------- *)

\* JsonEventFromAppEvent: a fresh JsonAppEvent; IsHistoricEvent keeps its
\* zero value.
JsonEventFromAppEvent(event) ==
    [IsHistoricEvent |-> FALSE,
     Timestamp       |-> event.Timestamp,
     Ev              |-> event.Ev,
     Msg             |-> event.Msg]

\* json.Marshal(event) in writeJSONEvent: err == nil.
MarshalOK(jev) == jev.Timestamp # BadTime

\* EventList's Less, used by sort.Sort: older timestamp first.
EventListLess(a, b) == a.Timestamp < b.Timestamp

\* The results sort.Sort (not stable) may leave for the elements of S.
SortedLists(S) ==
    LET n == Cardinality(S)
    IN  {s \in [1..n -> S] :
            /\ \A x \in S : \E i \in 1..n : s[i] = x
            /\ \A i, j \in 1..n : i < j => ~EventListLess(s[j], s[i])}

\* The orders a range over the map may produce for the elements of S.
AnyOrder(S) ==
    LET n == Cardinality(S)
    IN  {s \in [1..n -> S] : \A x \in S : \E i \in 1..n : s[i] = x}

MapValues(m) == {m[k] : k \in DOMAIN m}

\* a.lastEvents[key] = value
MapPut(m, key, value) ==
    [k \in (DOMAIN m) \cup {key} |-> IF k = key THEN value ELSE m[k]]

(* --------------------------- application bus --------------------------- *)

BusSubscribe(subs, ch) == subs \cup {ch}

BusUnsubscribe(subs, ch) == subs \ {ch}

\* What channel c holds after event e is broadcast: a subscribed channel
\* with room takes it; a full one does not.
Deliver(c, e) ==
    IF c \in subscribers /\ Len(chan[c]) < ChanCap
    THEN Append(chan[c], e)
    ELSE chan[c]

\* An event is posted and broadcast.  The updater's eventChannel is
\* unbuffered: it takes the event only while waiting at the receive.
Post(e) ==
    /\ postsLeft > 0
    /\ postsLeft' = postsLeft - 1
    /\ published' = Append(published, e)
    /\ chan' = [c \in Clients |-> Deliver(c, e)]
    /\ IF "updater" \in subscribers /\ upc = "recv"
       THEN /\ uev' = e
            /\ upc' = "lock"
            /\ collected' = Append(collected, e)
       ELSE UNCHANGED <<uev, upc, collected>>
    /\ UNCHANGED <<subscribers, lastEvents, lastEventsLock, pc, hist, snap,
                   cur, out, recvd, connUp, failed>>
    /\ UNCHANGED <<httpVars, earlVars>>

(* ------------------------- collectLastEvents --------------------------- *)

CollectLock ==
    /\ upc = "lock"
    /\ lastEventsLock = "free"
    /\ lastEventsLock' = "updater"
    /\ upc' = "locked"
    /\ UNCHANGED <<postsLeft, published, collected, subscribers, chan, uev, lastEvents,
                   pc, hist, snap, cur, out, recvd, connUp, failed>>
    /\ UNCHANGED <<httpVars, earlVars>>

\* Variant: the stored entry is not marked historic.
JsonifiedUnmarked(ev) == JsonEventFromAppEvent(ev)

\* The entry stored for ev.
Jsonified(ev) ==
    [JsonEventFromAppEvent(ev) EXCEPT !.IsHistoricEvent = TRUE]

\* Variant: an entry already present for the type is kept.
CollectStoreKeepFirst ==
    /\ upc = "locked"
    /\ lastEvents' = IF uev.Ev \in DOMAIN lastEvents
                      THEN lastEvents
                      ELSE MapPut(lastEvents, uev.Ev, Jsonified(uev))
    /\ lastEventsLock' = "free"
    /\ upc' = "recv"
    /\ uev' = NoEvent
    /\ UNCHANGED <<postsLeft, published, collected, subscribers, chan, pc,
                   hist, snap, cur, out, recvd, connUp, failed>>
    /\ UNCHANGED <<httpVars, earlVars>>

CollectStore ==
    /\ upc = "locked"
    /\ lastEvents' = MapPut(lastEvents, uev.Ev, Jsonified(uev))
    /\ lastEventsLock' = "free"
    /\ upc' = "recv"
    /\ uev' = NoEvent
    /\ UNCHANGED <<postsLeft, published, collected, subscribers, chan, pc, hist, snap,
                   cur, out, recvd, connUp, failed>>
    /\ UNCHANGED <<httpVars, earlVars>>

(* ------------------------ ServeHTTP, /api/events ----------------------- *)

GetHistoryLock(c) ==
    /\ pc[c] = "start"
    /\ lastEventsLock = "free"
    /\ lastEventsLock' = c
    /\ pc' = [pc EXCEPT ![c] = "getHistory"]
    /\ UNCHANGED <<postsLeft, published, collected, subscribers, chan, upc, uev,
                   lastEvents, hist, snap, cur, out, recvd, connUp, failed>>
    /\ UNCHANGED <<httpVars, earlVars>>

\* Variant: the copied entries are returned unsorted.
HistoryUnsorted(m) == AnyOrder(MapValues(m))

\* The lists getHistory() may return for the cache contents m.
HistoryOf(m) == SortedLists(MapValues(m))

\* Variant: getHistory() returns with lastEventsLock still held.
GetHistoryKeepLock(c) ==
    /\ pc[c] = "getHistory"
    /\ lastEventsLock = c
    /\ \E result \in HistoryOf(lastEvents) :
          hist' = [hist EXCEPT ![c] = result]
    /\ snap' = [snap EXCEPT ![c] = MapValues(lastEvents)]
    /\ pc' = [pc EXCEPT ![c] = "replay"]
    /\ UNCHANGED <<postsLeft, published, collected, subscribers, chan, upc,
                   uev, lastEvents, lastEventsLock, cur, out, recvd, connUp,
                   failed>>
    /\ UNCHANGED <<httpVars, earlVars>>

GetHistory(c) ==
    /\ pc[c] = "getHistory"
    /\ lastEventsLock = c
    /\ \E result \in HistoryOf(lastEvents) :
          hist' = [hist EXCEPT ![c] = result]
    /\ snap' = [snap EXCEPT ![c] = MapValues(lastEvents)]
    /\ lastEventsLock' = "free"
    /\ pc' = [pc EXCEPT ![c] = "replay"]
    /\ UNCHANGED <<postsLeft, published, collected, subscribers, chan, upc, uev,
                   lastEvents, cur, out, recvd, connUp, failed>>
    /\ UNCHANGED <<httpVars, earlVars>>

\* One iteration of the history loop up to the transport write:
\* an event that fails to encode is ignored.
ReplayNext(c) ==
    /\ pc[c] = "replay"
    /\ IF hist[c] = <<>>
       THEN /\ pc' = [pc EXCEPT ![c] = "subscribe"]
            /\ UNCHANGED <<hist, cur>>
       ELSE /\ hist' = [hist EXCEPT ![c] = Tail(hist[c])]
            /\ IF MarshalOK(Head(hist[c]))
               THEN /\ cur' = [cur EXCEPT ![c] = Head(hist[c])]
                    /\ pc' = [pc EXCEPT ![c] = "replayWrite"]
               ELSE UNCHANGED <<cur, pc>>
    /\ UNCHANGED <<postsLeft, published, collected, subscribers, chan, upc, uev,
                   lastEvents, lastEventsLock, snap, out, recvd, connUp,
                   failed>>
    /\ UNCHANGED <<httpVars, earlVars>>

\* out.Write(json) during history replay; a failed write breaks the loop
\* (the rest of the list is not looked at again).
ReplayWrite(c) ==
    /\ pc[c] = "replayWrite"
    /\ IF connUp[c]
       THEN /\ out' = [out EXCEPT ![c] =
                          Append(@, [phase |-> "replay", jev |-> cur[c]])]
            /\ pc' = [pc EXCEPT ![c] = "replay"]
            /\ UNCHANGED <<failed, hist>>
       ELSE /\ pc' = [pc EXCEPT ![c] = "subscribe"]
            /\ failed' = [failed EXCEPT ![c] = TRUE]
            /\ hist' = [hist EXCEPT ![c] = <<>>]
            /\ UNCHANGED out
    /\ cur' = [cur EXCEPT ![c] = NoEvent]
    /\ UNCHANGED <<postsLeft, published, collected, subscribers, chan, upc,
                   uev, lastEvents, lastEventsLock, snap, recvd, connUp>>
    /\ UNCHANGED <<httpVars, earlVars>>

\* appEvents := make(AppEventChannel, 3); a.bus.Subscribe(appEvents)
Subscribe(c) ==
    /\ pc[c] = "subscribe"
    /\ subscribers' = BusSubscribe(subscribers, c)
    /\ chan' = [chan EXCEPT ![c] = <<>>]
    /\ pc' = [pc EXCEPT ![c] = "tail"]
    /\ UNCHANGED <<postsLeft, published, collected, upc, uev, lastEvents,
                   lastEventsLock, hist, snap, cur, out, recvd, connUp,
                   failed>>
    /\ UNCHANGED <<httpVars, earlVars>>

\* Variant: an event that fails to encode ends the live tail.
TailRecvStopOnEncodeError(c) ==
    /\ pc[c] = "tail"
    /\ chan[c] # <<>>
    /\ chan' = [chan EXCEPT ![c] = Tail(chan[c])]
    /\ recvd' = [recvd EXCEPT ![c] = Append(@, Head(chan[c]))]
    /\ IF MarshalOK(JsonEventFromAppEvent(Head(chan[c])))
       THEN /\ cur' = [cur EXCEPT ![c] = JsonEventFromAppEvent(Head(chan[c]))]
            /\ pc' = [pc EXCEPT ![c] = "tailWrite"]
       ELSE /\ pc' = [pc EXCEPT ![c] = "unsubscribe"]
            /\ UNCHANGED cur
    /\ UNCHANGED <<postsLeft, published, collected, subscribers, upc, uev,
                   lastEvents, lastEventsLock, hist, snap, out, connUp,
                   failed>>
    /\ UNCHANGED <<httpVars, earlVars>>

\* event := <-appEvents, and writeJSONEvent up to the transport write.
TailRecv(c) ==
    /\ pc[c] = "tail"
    /\ chan[c] # <<>>
    /\ chan' = [chan EXCEPT ![c] = Tail(chan[c])]
    /\ recvd' = [recvd EXCEPT ![c] = Append(@, Head(chan[c]))]
    /\ IF MarshalOK(JsonEventFromAppEvent(Head(chan[c])))
       THEN /\ cur' = [cur EXCEPT ![c] = JsonEventFromAppEvent(Head(chan[c]))]
            /\ pc' = [pc EXCEPT ![c] = "tailWrite"]
       ELSE UNCHANGED <<cur, pc>>
    /\ UNCHANGED <<postsLeft, published, collected, subscribers, upc, uev, lastEvents,
                   lastEventsLock, hist, snap, out, connUp, failed>>
    /\ UNCHANGED <<httpVars, earlVars>>

\* Variant: a failed write in the live tail is ignored and the loop goes on.
TailWriteIgnoreError(c) ==
    /\ pc[c] = "tailWrite"
    /\ IF connUp[c]
       THEN /\ out' = [out EXCEPT ![c] =
                          Append(@, [phase |-> "tail", jev |-> cur[c]])]
            /\ UNCHANGED failed
       ELSE /\ failed' = [failed EXCEPT ![c] = TRUE]
            /\ UNCHANGED out
    /\ pc' = [pc EXCEPT ![c] = "tail"]
    /\ cur' = [cur EXCEPT ![c] = NoEvent]
    /\ UNCHANGED <<postsLeft, published, collected, subscribers, chan, upc,
                   uev, lastEvents, lastEventsLock, hist, snap, recvd,
                   connUp>>
    /\ UNCHANGED <<httpVars, earlVars>>

\* out.Write(json) in the live tail; a failed write breaks the loop.
TailWrite(c) ==
    /\ pc[c] = "tailWrite"
    /\ IF connUp[c]
       THEN /\ out' = [out EXCEPT ![c] =
                          Append(@, [phase |-> "tail", jev |-> cur[c]])]
            /\ pc' = [pc EXCEPT ![c] = "tail"]
            /\ UNCHANGED failed
       ELSE /\ pc' = [pc EXCEPT ![c] = "unsubscribe"]
            /\ failed' = [failed EXCEPT ![c] = TRUE]
            /\ UNCHANGED out
    /\ cur' = [cur EXCEPT ![c] = NoEvent]
    /\ UNCHANGED <<postsLeft, published, collected, subscribers, chan, upc,
                   uev, lastEvents, lastEventsLock, hist, snap, recvd,
                   connUp>>
    /\ UNCHANGED <<httpVars, earlVars>>

\* Variant: the handler returns without unsubscribing.
ReturnStillSubscribed(c) ==
    /\ pc[c] = "unsubscribe"
    /\ pc' = [pc EXCEPT ![c] = "done"]
    /\ UNCHANGED <<postsLeft, published, collected, subscribers, chan, upc,
                   uev, lastEvents, lastEventsLock, hist, snap, cur, out,
                   recvd, connUp, failed>>
    /\ UNCHANGED <<httpVars, earlVars>>

\* a.bus.Unsubscribe(appEvents), and the handler returns: appEvents and
\* what it still holds are dropped.
Unsubscribe(c) ==
    /\ pc[c] = "unsubscribe"
    /\ subscribers' = BusUnsubscribe(subscribers, c)
    /\ chan' = [chan EXCEPT ![c] = <<>>]
    /\ pc' = [pc EXCEPT ![c] = "done"]
    /\ UNCHANGED <<postsLeft, published, collected, upc, uev, lastEvents,
                   lastEventsLock, hist, snap, cur, out, recvd, connUp,
                   failed>>
    /\ UNCHANGED <<httpVars, earlVars>>

\* The client of connection c goes away: its transport writes fail from
\* now on.
Disconnect(c) ==
    /\ connUp[c]
    /\ pc[c] \notin {"idle", "done"}
    /\ connUp' = [connUp EXCEPT ![c] = FALSE]
    /\ UNCHANGED <<postsLeft, published, collected, subscribers, chan, upc, uev,
                   lastEvents, lastEventsLock, pc, hist, snap, cur, out,
                   recvd, failed>>
    /\ UNCHANGED <<httpVars, earlVars>>

(* ------------------------------ Authenticator -------------------------- *)

Rfids == {"r1", "r2"}

\* Operator codes the registry accepts as authorizing an update.
AuthorizedCodes == {"a1"}

\* The onetime credentials the store holds, by passkey.
OnetimeStore ==
    [pk \in {"pk1", "pk2", "pk3"} |->
        CASE pk = "pk1" -> [pass |-> "pk1", rfid |-> "r1", authUserCode |-> "a1"]
          [] pk = "pk2" -> [pass |-> "pk2", rfid |-> "r2", authUserCode |-> "a1"]
          [] pk = "pk3" -> [pass |-> "pk3", rfid |-> "r1", authUserCode |-> "a2"]]

\* GetOnetime(passkey) returns an error.
GetOnetimeFails(passkey) == passkey \notin DOMAIN OnetimeStore

\* FindUser(rfid) # nil
FindUser(us, rfid) == rfid \in DOMAIN us

ValidLevels == {"member", "user"}

isValidLevel(levelStr) == levelStr \in ValidLevels

\* Variant: the validity window's end is kept.
updateUserKeepValidTo(u, name, contactInfo, level) ==
    [u EXCEPT !.ContactInfo = contactInfo,
              !.Name = name,
              !.UserLevel = level,
              !.ValidFrom = 0]

\* The closure updateUser of UseraddHandler; time.Time{} is 0.
updateUser(u, name, contactInfo, level) ==
    [u EXCEPT !.ContactInfo = contactInfo,
              !.Name = name,
              !.UserLevel = level,
              !.ValidFrom = 0,
              !.ValidTo = 0]

\* UpdateUser applies the update: the operator code is accepted and the
\* record exists.
UpdateApplies(us, authUserCode, rfid) ==
    authUserCode \in AuthorizedCodes /\ rfid \in DOMAIN us

(* ---------------------------- ServeHTTP, routing ----------------------- *)

Methods == {"GET", "POST", "PUT"}

Paths == {"/", "/useradd", "/api/events", "/other"}

\* The requests served: any method and path; form fields are drawn for
\* /useradd, the one path whose handler reads them.
Requests ==
    {r \in [method      : Methods,
            path        : Paths,
            parseErr    : BOOLEAN,
            passkey     : {"", "pk1", "pk2", "pk3", "nokey"},
            name        : {"", "Alice"},
            contactInfo : {"", "alice@example.com"},
            userType    : {"", "member", "bogus"}] :
        r.path # "/useradd" =>
            /\ ~r.parseErr
            /\ r.passkey = ""
            /\ r.name = ""
            /\ r.contactInfo = ""
            /\ r.userType = ""}

NoRequest ==
    [method |-> "", path |-> "", parseErr |-> FALSE, passkey |-> "",
     name |-> "", contactInfo |-> "", userType |-> ""]

\* One line of a response body.
Line(text, a, b) == [text |-> text, a |-> a, b |-> b]

\* http.Error(w, msg, code)
HttpError(msg, code) == [status |-> code, body |-> <<Line(msg, "", "")>>]

\* fmt.Fprintf(w, ...) with no status set before: 200.
Written(body) == [status |-> 200, body |-> body]

UIHandler(r) ==
    IF r.path # "/" THEN HttpError("Not found", 404)
    ELSE IF r.method # "GET" THEN HttpError("Method not allowed", 405)
    ELSE Written(<<Line("static/index.htm", "", "")>>)

\* What UseraddHandler has written after r.ParseForm().
AfterParseForm(r) ==
    IF r.parseErr THEN <<Line("invalid form", "", "")>> ELSE <<>>

\* Variant: the contact information is checked before the name.
InputFieldsContactFirst(r, pre) ==
    IF r.contactInfo = "" THEN Append(pre, Line("Must submit email", "", ""))
    ELSE IF r.name = "" THEN Append(pre, Line("Must submit name", "", ""))
    ELSE IF r.userType = "" THEN Append(pre, Line("Must submit user type", "", ""))
    ELSE IF ~isValidLevel(r.userType)
         THEN Append(pre, Line("level is not valid", r.userType, ""))
    ELSE pre

\* "Validate input fields": the body after the checks of name, contactInfo
\* and userType; pre (what was written before) when all of them pass.
InputFields(r, pre) ==
    IF r.name = "" THEN Append(pre, Line("Must submit name", "", ""))
    ELSE IF r.contactInfo = "" THEN Append(pre, Line("Must submit email", "", ""))
    ELSE IF r.userType = "" THEN Append(pre, Line("Must submit user type", "", ""))
    ELSE IF ~isValidLevel(r.userType)
         THEN Append(pre, Line("level is not valid", r.userType, ""))
    ELSE pre

\* Variant: a missing passkey is answered with status 400.
MissingPasskeyBadRequest(pre) ==
    [status |-> 400, body |-> Append(pre, Line("Must submit passkey", "", ""))]

\* The answer to a request without passkey.
MissingPasskey(pre) == Written(Append(pre, Line("Must submit passkey", "", "")))

\* UseraddHandler up to FindUser: the response, and whether the handler goes
\* on to UpdateUser.
UseraddChecks(r, us) ==
    LET pre == AfterParseForm(r)
        stop(rsp) == [rsp |-> rsp, goOn |-> FALSE]
    IN  IF r.path # "/useradd" THEN stop(HttpError("Not found", 404))
        ELSE IF r.method # "POST" THEN stop(HttpError("Method not allowed", 405))
        ELSE IF r.passkey = "" THEN stop(MissingPasskey(pre))
        ELSE IF GetOnetimeFails(r.passkey)
             THEN stop(Written(Append(pre, Line("Failed", "no such passkey", ""))))
        ELSE IF InputFields(r, pre) # pre THEN stop(Written(InputFields(r, pre)))
        ELSE IF ~FindUser(us, OnetimeStore[r.passkey].rfid)
             THEN stop(Written(Append(pre,
                     Line("passkey not mapped to user, try again",
                          OnetimeStore[r.passkey].pass, ""))))
        ELSE [rsp |-> Written(pre), goOn |-> TRUE]

\* The fixed hint of the answer to an unknown path.
NothingToSee ==
    Line("Nothing to see here. The cool stuff is happening at /api/events", "", "")

\* Variant: the path is looked at before the method.
RoutePathFirst(r, us) ==
    LET stop(rsp) == [rsp |-> rsp, goOn |-> FALSE]
    IN  IF r.path \notin {"/", "/useradd", "/api/events"}
        THEN stop([status |-> 404, body |-> <<NothingToSee>>])
        ELSE IF r.method # "GET" /\ r.method # "POST"
        THEN stop([status |-> 405, body |-> <<>>])
        ELSE IF r.path = "/" THEN stop(UIHandler(r))
        ELSE IF r.path = "/useradd" THEN UseraddChecks(r, us)
        ELSE stop(Written(<<Line("event feed", "", "")>>))

\* ServeHTTP for every path but the streaming of /api/events, which the
\* feed actions model: the response, and whether UseraddHandler goes on.
Route(r, us) ==
    LET stop(rsp) == [rsp |-> rsp, goOn |-> FALSE]
    IN  IF r.method # "GET" /\ r.method # "POST"
        THEN stop([status |-> 405, body |-> <<>>])
        ELSE IF r.path = "/" THEN stop(UIHandler(r))
        ELSE IF r.path = "/useradd" THEN UseraddChecks(r, us)
        ELSE IF r.path # "/api/events"
             THEN stop([status |-> 404, body |-> <<NothingToSee>>])
        ELSE stop(Written(<<Line("event feed", "", "")>>))

\* A request arrives and is served up to its response or, for /useradd, up
\* to the call of UpdateUser.
ServeHTTP(r) ==
    /\ reqsLeft > 0
    /\ hpc \in {"idle", "responded"}
    /\ reqsLeft' = reqsLeft - 1
    /\ req' = r
    /\ resp' = Route(r, users).rsp
    /\ hpc' = IF Route(r, users).goOn THEN "update" ELSE "responded"
    /\ UNCHANGED <<users, updateCalls>>
    /\ UNCHANGED <<feedVars, earlVars>>

\* a.auth.UpdateUser(onetime.authUserCode, onetime.rfid, updateUser), its
\* result ignored, and the closing line of the response.
UseraddUpdate ==
    /\ hpc = "update"
    /\ LET onetime == OnetimeStore[req.passkey]
           applies == UpdateApplies(users, onetime.authUserCode, onetime.rfid)
       IN  /\ users' = IF applies
                       THEN [users EXCEPT ![onetime.rfid] =
                               updateUser(@, req.name, req.contactInfo, req.userType)]
                       ELSE users
           /\ updateCalls' = Append(updateCalls,
                                [authUserCode |-> onetime.authUserCode,
                                 rfid |-> onetime.rfid,
                                 applied |-> applies])
    /\ resp' = Written(Append(resp.body,
                  Line("Successfully added", req.contactInfo, req.userType)))
    /\ hpc' = "responded"
    /\ UNCHANGED <<reqsLeft, req>>
    /\ UNCHANGED <<feedVars, earlVars>>

\* Code outside the server removes a user record.
RegistryDelete(rfid) ==
    /\ rfid \in DOMAIN users
    /\ users' = [r \in (DOMAIN users) \ {rfid} |-> users[r]]
    /\ UNCHANGED <<reqsLeft, req, hpc, resp, updateCalls>>
    /\ UNCHANGED <<feedVars, earlVars>>

\* The registry holds a time-boxed record for badge r1 and none for r2.
InitHTTP(requests) ==
    /\ reqsLeft = requests
    /\ req = NoRequest
    /\ hpc = "idle"
    /\ resp = [status |-> 0, body |-> <<>>]
    /\ users = [r \in {"r1"} |->
                  [Name |-> "", ContactInfo |-> "", UserLevel |-> "",
                   ValidFrom |-> 1, ValidTo |-> 2]]
    /\ updateCalls = <<>>

(* ------------------------------ onetime.go ----------------------------- *)

\* Instants are counted in half minutes.
Minute == 2

expirationWindow == Minute * 2

\* The display width, scaled down.
maxLCDCols == 2

\* A phrase of n characters.
Phrase(n) == [i \in 1..n |-> "x"]

\* What the passphrase generator may return: the empty phrase, one that
\* just fits the display and one that is one character too long.
Phrases == {Phrase(0), Phrase(maxLCDCols), Phrase(maxLCDCols + 1)}

\* Instants at which a credential is issued.
IssueInstants == {0, 1}

\* Instants at which IsExpired is asked: up to a minute past any deadline.
QueryInstants == 0..(1 + expirationWindow + Minute)

NoOnetime == [pass |-> <<>>, rfid |-> "", authUserCode |-> "", expiration |-> -1]

NoIssue == [now |-> -1, rfid |-> "", authUserCode |-> ""]

\* now.Add(d)
TimeAdd(now, d) == now + d

\* Variant: a credential is expired from its expiration instant on.
IsExpiredAtDeadline(o, now) == now >= o.expiration

\* o.IsExpired(now): now.After(o.expiration)
IsExpired(o, now) == now > o.expiration

\* Variant: a phrase one character wider than the display is accepted.
OverLengthOffByOne(pass) == Len(pass) > maxLCDCols + 1

\* len(pass) > maxLCDCols
OverLength(pass) == Len(pass) > maxLCDCols

\* What a frame of genPass returns from its pass and err.
ReturnValue(frame) == IF frame.err THEN <<>> ELSE frame.pass

\* A frame of genPass about to invoke the generator.
NewFrame == [pc |-> "gen", pass |-> <<>>, err |-> FALSE]

Top(stack) == stack[Len(stack)]

SetTop(stack, frame) == [stack EXCEPT ![Len(stack)] = frame]

Pop(stack) == SubSeq(stack, 1, Len(stack) - 1)

\* NewOnetime(now, rfid, authUserCode) is called and calls genPass().
NewOnetime(now, rfid, authUserCode) ==
    /\ issuesLeft > 0
    /\ opc \in {"idle", "made"}
    /\ issuesLeft' = issuesLeft - 1
    /\ opc' = "genPass"
    /\ issue' = [now |-> now, rfid |-> rfid, authUserCode |-> authUserCode]
    /\ gstack' = <<NewFrame>>
    /\ results' = <<>>
    /\ gret' = <<>>
    /\ issued' = NoOnetime
    /\ queriedAt' = -1
    /\ expired' = FALSE
    /\ UNCHANGED <<feedVars, httpVars, toneVars>>

\* pass, err := passgen.GetXKCDPassphrase(3): the generator returns any
\* phrase, with or without an error.
GetXKCDPassphrase(phrase, failure) ==
    /\ gstack # <<>>
    /\ Top(gstack).pc = "gen"
    /\ Len(results) < MaxGenCalls
    /\ gstack' = SetTop(gstack, [pc |-> "len", pass |-> phrase, err |-> failure])
    /\ results' = Append(results, [pass |-> phrase, err |-> failure])
    /\ UNCHANGED <<issuesLeft, opc, issue, gret, issued, queriedAt, expired>>
    /\ UNCHANGED <<feedVars, httpVars, toneVars>>

\* Variant: a generator failure is looked at before the length.
GenPassLenErrFirst ==
    /\ gstack # <<>>
    /\ Top(gstack).pc = "len"
    /\ IF OverLength(Top(gstack).pass) /\ ~Top(gstack).err
       THEN gstack' = Append(SetTop(gstack, [Top(gstack) EXCEPT !.pc = "wait"]),
                             NewFrame)
       ELSE gstack' = SetTop(gstack, [Top(gstack) EXCEPT !.pc = "err"])
    /\ UNCHANGED <<issuesLeft, opc, issue, results, gret, issued, queriedAt, expired>>
    /\ UNCHANGED <<feedVars, httpVars, toneVars>>

\* if len(pass) > maxLCDCols { pass = genPass() }: the recursive call.
GenPassLen ==
    /\ gstack # <<>>
    /\ Top(gstack).pc = "len"
    /\ IF OverLength(Top(gstack).pass)
       THEN gstack' = Append(SetTop(gstack, [Top(gstack) EXCEPT !.pc = "wait"]),
                             NewFrame)
       ELSE gstack' = SetTop(gstack, [Top(gstack) EXCEPT !.pc = "err"])
    /\ UNCHANGED <<issuesLeft, opc, issue, results, gret, issued, queriedAt, expired>>
    /\ UNCHANGED <<feedVars, httpVars, toneVars>>

\* if err != nil { return "" }; return pass.  The caller, if it is a frame
\* of genPass, assigns the value to its pass and goes on to its own test
\* of err.
GenPassReturn ==
    /\ gstack # <<>>
    /\ Top(gstack).pc = "err"
    /\ gret' = ReturnValue(Top(gstack))
    /\ gstack' = IF Len(gstack) = 1
                 THEN <<>>
                 ELSE SetTop(Pop(gstack),
                             [Top(Pop(gstack)) EXCEPT !.pass = ReturnValue(Top(gstack)),
                                                      !.pc = "err"])
    /\ UNCHANGED <<issuesLeft, opc, issue, results, issued, queriedAt, expired>>
    /\ UNCHANGED <<feedVars, httpVars, toneVars>>

\* expire := now.Add(expirationWindow); return &Onetime{...}
NewOnetimeReturn ==
    /\ opc = "genPass"
    /\ gstack = <<>>
    /\ issued' = [pass |-> gret,
                   rfid |-> issue.rfid,
                   authUserCode |-> issue.authUserCode,
                   expiration |-> TimeAdd(issue.now, expirationWindow)]
    /\ opc' = "made"
    /\ UNCHANGED <<issuesLeft, issue, gstack, results, gret, queriedAt, expired>>
    /\ UNCHANGED <<feedVars, httpVars, toneVars>>

\* onetime.IsExpired(now) is called.
IsExpiredCall(now) ==
    /\ opc = "made"
    /\ queriedAt' = now
    /\ expired' = IsExpired(issued, now)
    /\ UNCHANGED <<issuesLeft, opc, issue, gstack, results, gret, issued>>
    /\ UNCHANGED <<feedVars, httpVars, toneVars>>

InitOnetime(issues) ==
    /\ issuesLeft = issues
    /\ opc = "idle"
    /\ issue = NoIssue
    /\ gstack = <<>>
    /\ results = <<>>
    /\ gret = <<>>
    /\ issued = NoOnetime
    /\ queriedAt = -1
    /\ expired = FALSE

(* --------------------------- tone generator ---------------------------- *)

\* Values of one byte of a Clock::cycle_t, scaled down.
ByteRange == 2

\* Values of a Clock::cycle_t, which is two bytes wide: arithmetic on it is
\* modulo CycleRange.
CycleRange == ByteRange * ByteRange

Cycles == 0..(CycleRange - 1)

HighByte(v) == v \div ByteRange

LowByte(v) == v % ByteRange

\* What a two-byte variable may hold between the two byte stores that
\* change it from old to new, whichever byte is stored first.
Torn(old, new) ==
    {HighByte(new) * ByteRange + LowByte(old),
     HighByte(old) * ByteRange + LowByte(new)}

\* Variant: the tone lasts one cycle longer.
StillSoundingInclusive(now, start, wait) ==
    ((now - start) % CycleRange) <= wait

\* Clock::now() - start_time_ < wait_time_, in unsigned arithmetic.
StillSounding(now, start, wait) ==
    ((now - start) % CycleRange) < wait

\* The cycle counter advances.
Tick ==
    /\ clock' = (clock + 1) % CycleRange
    /\ UNCHANGED <<tonesLeft, wait_time_, start_time_, ocie2, pin, tpc,
                   duration_cycles, tnow, overlap>>
    /\ UNCHANGED <<feedVars, httpVars, onetimeVars>>

\* ISR(TIMER2_COMP_vect): runs to its end whenever the interrupt is
\* enabled, at any point of the foreground code.
ISR ==
    /\ ocie2
    /\ IF StillSounding(clock, start_time_, wait_time_)
       THEN /\ pin' = ~pin
            /\ UNCHANGED ocie2
       ELSE /\ ocie2' = FALSE
            /\ pin' = FALSE
    /\ overlap' = IF tpc = "idle" \/ overlap \in {"none", "stopped"}
                  THEN overlap
                  ELSE IF StillSounding(clock, start_time_, wait_time_)
                       THEN "interrupted"
                       ELSE "stopped"
    /\ UNCHANGED <<tonesLeft, clock, wait_time_, start_time_, tpc,
                   duration_cycles, tnow>>
    /\ UNCHANGED <<feedVars, httpVars, onetimeVars>>

\* Tone(divider, duration) is called.  The divider sets how often the
\* interrupt fires once enabled, which is left open here.
Tone(divider, duration) ==
    /\ tonesLeft > 0
    /\ tpc = "idle"
    /\ tonesLeft' = tonesLeft - 1
    /\ duration_cycles' = duration
    /\ overlap' = IF ocie2 THEN "sounding" ELSE "none"
    /\ tpc' = "wait1"
    /\ UNCHANGED <<clock, wait_time_, start_time_, ocie2, pin, tnow>>
    /\ UNCHANGED <<feedVars, httpVars, onetimeVars>>

\* wait_time_ = duration_cycles: the first of its two byte stores.
ToneWriteWaitByte ==
    /\ tpc = "wait1"
    /\ wait_time_' \in Torn(wait_time_, duration_cycles)
    /\ tpc' = "wait2"
    /\ UNCHANGED <<tonesLeft, clock, start_time_, ocie2, pin, duration_cycles,
                   tnow, overlap>>
    /\ UNCHANGED <<feedVars, httpVars, onetimeVars>>

\* Variant: a duration shorter than the one in force is not stored.
ToneWriteWaitKeepLonger ==
    /\ tpc = "wait2"
    /\ wait_time_' = IF wait_time_ > duration_cycles
                     THEN wait_time_
                     ELSE duration_cycles
    /\ tpc' = "now"
    /\ UNCHANGED <<tonesLeft, clock, start_time_, ocie2, pin, duration_cycles,
                   tnow, overlap>>
    /\ UNCHANGED <<feedVars, httpVars, onetimeVars>>

\* wait_time_ = duration_cycles: the second byte store.
ToneWriteWait ==
    /\ tpc = "wait2"
    /\ wait_time_' = duration_cycles
    /\ tpc' = "now"
    /\ UNCHANGED <<tonesLeft, clock, start_time_, ocie2, pin, duration_cycles,
                   tnow, overlap>>
    /\ UNCHANGED <<feedVars, httpVars, onetimeVars>>

\* Clock::now() is read for start_time_.
ToneReadClock ==
    /\ tpc = "now"
    /\ tnow' = clock
    /\ tpc' = "start1"
    /\ UNCHANGED <<tonesLeft, clock, wait_time_, start_time_, ocie2, pin,
                   duration_cycles, overlap>>
    /\ UNCHANGED <<feedVars, httpVars, onetimeVars>>

\* start_time_ = Clock::now(): the first of its two byte stores.
ToneWriteStartByte ==
    /\ tpc = "start1"
    /\ start_time_' \in Torn(start_time_, tnow)
    /\ tpc' = "start2"
    /\ UNCHANGED <<tonesLeft, clock, wait_time_, ocie2, pin, duration_cycles,
                   tnow, overlap>>
    /\ UNCHANGED <<feedVars, httpVars, onetimeVars>>

\* start_time_ = Clock::now(): the second byte store.
ToneWriteStart ==
    /\ tpc = "start2"
    /\ start_time_' = tnow
    /\ tpc' = "on"
    /\ UNCHANGED <<tonesLeft, clock, wait_time_, ocie2, pin, duration_cycles,
                   tnow, overlap>>
    /\ UNCHANGED <<feedVars, httpVars, onetimeVars>>

\* ToneOn(divider): the compare-match interrupt is enabled, and Tone
\* returns.
ToneOn ==
    /\ tpc = "on"
    /\ ocie2' = TRUE
    /\ tpc' = "idle"
    /\ UNCHANGED <<tonesLeft, clock, wait_time_, start_time_, pin,
                   duration_cycles, tnow, overlap>>
    /\ UNCHANGED <<feedVars, httpVars, onetimeVars>>

\* After ToneGen::Init(): no tone has been asked for, the interrupt is
\* disabled and the pin is low.
InitTone(tones) ==
    /\ tonesLeft = tones
    /\ clock = 0
    /\ wait_time_ = 0
    /\ start_time_ = 0
    /\ ocie2 = FALSE
    /\ pin = FALSE
    /\ tpc = "idle"
    /\ duration_cycles = 0
    /\ tnow = 0
    /\ overlap = "none"

(* ---------------------------- specification ---------------------------- *)

\* NewApiServer, and the events of the sequence done (at most one) posted
\* and stored since: eventChannel is subscribed and collectLastEvents waits
\* at its receive.  Feed requests are in flight on the connections in
\* conns; the other connections stay idle.
InitFeed(conns, posts, done) ==
    /\ postsLeft = posts
    /\ published = done
    /\ collected = done
    /\ subscribers = {"updater"}
    /\ chan = [c \in Clients |-> <<>>]
    /\ upc = "recv"
    /\ uev = NoEvent
    /\ lastEvents = IF done = <<>>
                    THEN <<>>
                    ELSE MapPut(<<>>, done[1].Ev, Jsonified(done[1]))
    /\ lastEventsLock = "free"
    /\ pc = [c \in Clients |-> IF c \in conns THEN "start" ELSE "idle"]
    /\ hist = [c \in Clients |-> <<>>]
    /\ snap = [c \in Clients |-> {}]
    /\ cur = [c \in Clients |-> NoEvent]
    /\ out = [c \in Clients |-> <<>>]
    /\ recvd = [c \in Clients |-> <<>>]
    /\ connUp = [c \in Clients |-> TRUE]
    /\ failed = [c \in Clients |-> FALSE]

PostAny ==
    \E t \in Timestamps, ty \in EventTypes :
        Post([Timestamp |-> t, Ev |-> ty, Msg |-> Len(published) + 1])

Next ==
    \/ PostAny
    \/ CollectLock
    \/ CollectStore
    \/ \E c \in Clients : GetHistoryLock(c)
    \/ \E c \in Clients : GetHistory(c)
    \/ \E c \in Clients : ReplayNext(c)
    \/ \E c \in Clients : ReplayWrite(c)
    \/ \E c \in Clients : Subscribe(c)
    \/ \E c \in Clients : TailRecv(c)
    \/ \E c \in Clients : TailWrite(c)
    \/ \E c \in Clients : Unsubscribe(c)
    \/ \E c \in Clients : Disconnect(c)

\* Nothing is issued and no tone is asked for.
InitEarl == InitOnetime(0) /\ InitTone(0)

Init == InitFeed({"c1"}, MaxEvents, <<>>) /\ InitHTTP(0) /\ InitEarl

InitFair == InitFeed({"c1"}, MaxEventsFair, <<>>) /\ InitHTTP(0) /\ InitEarl

\* An event that was posted and cached before the two requests arrive.
FirstEvent == [Timestamp |-> 1, Ev |-> "ta", Msg |-> 1]

InitTwo ==
    InitFeed(Clients, MaxEventsTwo, <<FirstEvent>>) /\ InitHTTP(0) /\ InitEarl

\* One feed connection.
Spec == Init /\ [][Next]_vars

\* Two feed connections.
SpecTwo == InitTwo /\ [][Next]_vars

\* Scheduling of the steps around lastEventsLock: a goroutine holding the
\* mutex goes on to release it, and a mutex that is released again and
\* again is eventually acquired by each waiter.
LockFairness ==
    /\ SF_vars(CollectLock)
    /\ WF_vars(CollectStore)
    /\ \A c \in Clients :
          /\ SF_vars(GetHistoryLock(c))
          /\ WF_vars(GetHistory(c))

\* Scheduling of the other handler steps: a goroutine that can take a step
\* takes it, and a write on a connection whose client is gone returns (with
\* an error).  Nothing makes the environment post events, and nothing
\* makes a write to a connected client complete: the client may have
\* stopped reading.
StreamFairness ==
    \A c \in Clients :
        /\ WF_vars(ReplayNext(c))
        /\ WF_vars(ReplayWrite(c) /\ ~connUp[c])
        /\ WF_vars(Subscribe(c))
        /\ WF_vars(TailRecv(c))
        /\ WF_vars(TailWrite(c) /\ ~connUp[c])
        /\ WF_vars(Unsubscribe(c))

Fairness == LockFairness /\ StreamFairness

\* One feed connection, every goroutine scheduled.
FairSpec == InitFair /\ [][Next]_vars /\ Fairness

\* Two feed connections; only the steps around the lock are required to
\* happen, so any handler may stay for ever in a write or anywhere else
\* outside getHistory.
FairSpecTwo == SpecTwo /\ LockFairness

\* Requests served one after the other, the registry changing meanwhile.
NextHTTP ==
    \/ (\E r \in Requests : ServeHTTP(r))
    \/ UseraddUpdate
    \/ (\E rfid \in Rfids : RegistryDelete(rfid))

InitServe == InitFeed({}, 0, <<>>) /\ InitHTTP(MaxRequests) /\ InitEarl

SpecHTTP == InitServe /\ [][NextHTTP]_vars

\* One credential is issued and asked for its expiry.
NextOnetime ==
    \/ \E now \in IssueInstants, rfid \in Rfids :
          NewOnetime(now, rfid, "a1")
    \/ \E phrase \in Phrases, failure \in BOOLEAN :
          GetXKCDPassphrase(phrase, failure)
    \/ GenPassLen
    \/ GenPassReturn
    \/ NewOnetimeReturn
    \/ \E now \in QueryInstants : IsExpiredCall(now)

InitIssue ==
    /\ InitFeed({}, 0, <<>>) /\ InitHTTP(0)
    /\ InitOnetime(MaxIssues) /\ InitTone(0)

SpecOnetime == InitIssue /\ [][NextOnetime]_vars

\* The goroutine calling NewOnetime keeps running.  Nothing is required
\* of the generator.
FairSpecOnetime ==
    /\ SpecOnetime
    /\ WF_vars(GenPassLen)
    /\ WF_vars(GenPassReturn)
    /\ WF_vars(NewOnetimeReturn)

\* Tones are asked for while the cycle counter runs and the compare-match
\* interrupt fires whenever it is enabled.
NextTone ==
    \/ Tick
    \/ ISR
    \/ \E duration \in Cycles : Tone(1, duration)
    \/ ToneWriteWaitByte
    \/ ToneWriteWait
    \/ ToneReadClock
    \/ ToneWriteStartByte
    \/ ToneWriteStart
    \/ ToneOn

InitSound ==
    /\ InitFeed({}, 0, <<>>) /\ InitHTTP(0)
    /\ InitOnetime(0) /\ InitTone(MaxTones)

SpecTone == InitSound /\ [][NextTone]_vars

\* The cycle counter keeps advancing, the compare-match interrupt keeps
\* firing while it is enabled, and a call of Tone runs to its end.
FairSpecTone ==
    /\ SpecTone
    /\ WF_vars(Tick)
    /\ WF_vars(ISR)
    /\ WF_vars(ToneWriteWaitByte)
    /\ WF_vars(ToneWriteWait)
    /\ WF_vars(ToneReadClock)
    /\ WF_vars(ToneWriteStartByte)
    /\ WF_vars(ToneWriteStart)
    /\ WF_vars(ToneOn)

(* ------------------------------- claims -------------------------------- *)

TypesOf(s) == {s[i].Ev : i \in 1..Len(s)}

\* The last event of type t in the sequence s.
LastOfType(s, t) ==
    s[CHOOSE i \in 1..Len(s) :
        s[i].Ev = t /\ \A j \in (i + 1)..Len(s) : s[j].Ev # t]

\* C1: once collectLastEvents has processed every event posted so far, the
\* cache holds one entry per event type that occurred, and it is the most
\* recently posted event of that type, tagged historic.
C1_CacheHoldsLastEventPerType ==
    (collected = published /\ upc = "recv") =>
        /\ DOMAIN lastEvents = TypesOf(published)
        /\ \A t \in DOMAIN lastEvents :
              LET e == LastOfType(published, t)
              IN  lastEvents[t] = [IsHistoricEvent |-> TRUE,
                                   Timestamp |-> e.Timestamp,
                                   Ev |-> e.Ev,
                                   Msg |-> e.Msg]

\* C1 witness: three events of two types were processed, two of them of one
\* type with different timestamps.
C1_Witness ==
    /\ collected = published
    /\ upc = "recv"
    /\ Len(published) = 3
    /\ TypesOf(published) = EventTypes
    /\ \E i, j \in 1..3 :
          /\ i < j
          /\ published[i].Ev = published[j].Ev
          /\ published[i].Timestamp # published[j].Timestamp

\* The event e yields a JsonAppEvent that json.Marshal accepts.
Encodes(e) == MarshalOK(JsonEventFromAppEvent(e))

\* C2 (as claimed): once the client of a subscribed handler that has
\* streamed something is gone, the handler's listener is eventually removed
\* from the bus (stated for the states in which the environment still has
\* events to post).
C2_DisconnectLeadsToUnsubscribe ==
    \A c \in Clients :
        (c \in subscribers /\ out[c] # <<>> /\ ~connUp[c] /\ postsLeft > 0)
            ~> (c \notin subscribers)

\* The handler of c is writing a live event, or has one that encodes waiting
\* in its channel.
HasEventToWrite(c) ==
    \/ pc[c] = "tailWrite"
    \/ \E i \in 1..Len(chan[c]) : Encodes(chan[c][i])

\* C2 (amended): once the client of a subscribed handler is gone and the
\* handler has a live event that encodes to write, the handler's listener is
\* eventually removed from the bus.
C2_DisconnectAndEventLeadToUnsubscribe ==
    \A c \in Clients :
        (c \in subscribers /\ ~connUp[c] /\ HasEventToWrite(c))
            ~> (c \notin subscribers)

\* C2 witness: the client is gone, the handler waits in its live tail, and
\* an event that does not encode is queued before one that does.
C2_Witness ==
    \E c \in Clients :
        /\ c \in subscribers
        /\ ~connUp[c]
        /\ pc[c] = "tail"
        /\ Len(chan[c]) = 2
        /\ ~Encodes(chan[c][1])
        /\ Encodes(chan[c][2])

\* C3: a feed handler that has returned is not subscribed on the bus.
C3_ReturnedHandlerUnsubscribed ==
    \A c \in Clients : pc[c] = "done" => c \notin subscribers

\* C3 witness: a handler has subscribed, relayed an event and returned.
C3_Witness ==
    \E c \in Clients : pc[c] = "done" /\ out[c] # <<>> /\ recvd[c] # <<>>

\* C4 (as claimed): after a transport write has failed on a connection, its
\* handler is not waiting in the live tail with a bus subscription.
C4_WriteFailureEndsHandler ==
    \A c \in Clients :
        failed[c] => ~(c \in subscribers /\ pc[c] \in {"tail", "tailWrite"})

IsTail(o) == o.phase = "tail"

IsReplay(o) == o.phase = "replay"

\* The wire events of a part of out[c].
JevsOf(s) == [i \in 1..Len(s) |-> s[i].jev]

\* What the live tail of c has to have written: every received event that
\* encodes, in order (the one still being written excluded).
TailExpected(c) ==
    LET got  == IF pc[c] = "tailWrite"
                THEN SubSeq(recvd[c], 1, Len(recvd[c]) - 1)
                ELSE recvd[c]
        good == SelectSeq(got, Encodes)
    IN  [i \in 1..Len(good) |-> JsonEventFromAppEvent(good[i])]

\* C5: as long as no transport write has failed, a handler in its live tail
\* stays in the loop and subscribed, and has written exactly the received
\* events that encode: one that does not encode is skipped and the following
\* ones are still relayed.
C5_EncodeFailureSkipsEvent ==
    \A c \in Clients :
        (pc[c] \in {"tail", "tailWrite", "unsubscribe", "done"} /\ ~failed[c]) =>
            /\ pc[c] \in {"tail", "tailWrite"}
            /\ c \in subscribers
            /\ JevsOf(SelectSeq(out[c], IsTail)) = TailExpected(c)

\* C5 witness: an event that does not encode was received, a later one was
\* received and written, with no write failure.
C5_Witness ==
    \E c \in Clients :
        /\ ~failed[c]
        /\ pc[c] = "tail"
        /\ \E i, j \in 1..Len(recvd[c]) :
              /\ i < j
              /\ ~Encodes(recvd[c][i])
              /\ Encodes(recvd[c][j])
              /\ \E k \in 1..Len(out[c]) :
                    /\ out[c][k].phase = "tail"
                    /\ out[c][k].jev = JsonEventFromAppEvent(recvd[c][j])

ReplayPart(c) == JevsOf(SelectSeq(out[c], IsReplay))

ReplayOver(c) == pc[c] \in {"subscribe", "tail", "tailWrite", "unsubscribe", "done"}

\* What C6 holds of every replay, complete or not.
ReplayOrdered(c) ==
    LET r == ReplayPart(c)
    IN  /\ \A i, j \in 1..Len(r) : i < j => r[i].Timestamp <= r[j].Timestamp
        /\ \A i, j \in 1..Len(r) : i < j => r[i].Ev # r[j].Ev
        /\ \A i \in 1..Len(r) : r[i] \in snap[c]
        /\ \A i, j \in 1..Len(out[c]) :
              (i < j /\ out[c][i].phase = "tail") => out[c][j].phase = "tail"

\* C6 (as claimed): the replay is in timestamp order, ends before the live
\* tail, and has emitted every cached entry exactly once.
C6_ReplayEmitsEveryCachedEvent ==
    \A c \in Clients :
        /\ ReplayOrdered(c)
        /\ ReplayOver(c) => {ReplayPart(c)[i] : i \in 1..Len(ReplayPart(c))} = snap[c]

\* C6 (amended): the replay is in timestamp order, emits no cached type
\* twice and only cached entries, and ends before the live tail; it has
\* emitted every cached entry when all of them encode and no write failed.
C6_ReplayOrderedAndComplete ==
    \A c \in Clients :
        /\ ReplayOrdered(c)
        /\ (ReplayOver(c) /\ ~failed[c] /\ \A e \in snap[c] : MarshalOK(e)) =>
              {ReplayPart(c)[i] : i \in 1..Len(ReplayPart(c))} = snap[c]

\* C6 witness: two cached entries with different timestamps were replayed,
\* then a live event was written.
C6_Witness ==
    \E c \in Clients :
        /\ Len(ReplayPart(c)) = 2
        /\ ReplayPart(c)[1].Timestamp < ReplayPart(c)[2].Timestamp
        /\ Len(out[c]) = 3
        /\ out[c][3].phase = "tail"

InNetworkIO(c) == pc[c] \in {"replayWrite", "tailWrite"}

\* C7: lastEventsLock is never held by a handler that is in a transport
\* write; and whatever writes stay stalled (no write to a connected client
\* is ever required to complete), the cache updater stores every event it
\* has taken and every connecting handler gets its cache snapshot.
C7_StalledClientBlocksNobody ==
    /\ [](\A c \in Clients : InNetworkIO(c) => lastEventsLock # c)
    /\ (upc = "lock") ~> (upc = "recv")
    /\ \A c \in Clients : (pc[c] = "start") ~> (pc[c] = "replay")

\* C7 witness: one handler is in a transport write while the updater waits
\* for the lock and another handler is about to take its snapshot.
C7_Witness ==
    \E c, d \in Clients :
        /\ c # d
        /\ InNetworkIO(c)
        /\ connUp[c]
        /\ upc = "lock"
        /\ pc[d] = "start"

IsUseraddPost(r) == r.method = "POST" /\ r.path = "/useradd"

\* The i-th check of POST /useradd, in the claimed order, fails for r.
CheckFails(i, r, us) ==
    CASE i = 1 -> r.passkey = ""
      [] i = 2 -> GetOnetimeFails(r.passkey)
      [] i = 3 -> r.name = ""
      [] i = 4 -> r.contactInfo = ""
      [] i = 5 -> r.userType = ""
      [] i = 6 -> ~isValidLevel(r.userType)
      [] i = 7 -> \/ GetOnetimeFails(r.passkey)
                  \/ ~FindUser(us, OnetimeStore[r.passkey].rfid)

\* The first check that fails, 0 when none does.
FirstFailing(r, us) ==
    IF \E i \in 1..7 : CheckFails(i, r, us)
    THEN CHOOSE i \in 1..7 :
            CheckFails(i, r, us) /\ \A j \in 1..(i - 1) : ~CheckFails(j, r, us)
    ELSE 0

\* The line that reports the failure of the i-th check.
CheckLine(i, r) ==
    CASE i = 1 -> Line("Must submit passkey", "", "")
      [] i = 2 -> Line("Failed", "no such passkey", "")
      [] i = 3 -> Line("Must submit name", "", "")
      [] i = 4 -> Line("Must submit email", "", "")
      [] i = 5 -> Line("Must submit user type", "", "")
      [] i = 6 -> Line("level is not valid", r.userType, "")
      [] i = 7 -> Line("passkey not mapped to user, try again",
                       OnetimeStore[r.passkey].pass, "")

NotParseNotice(l) == l.text # "invalid form"

\* C8: a POST /useradd for which some check fails is answered at once with
\* the line of the first failing check in the order passkey, credential,
\* name, contactInfo, userType, level, user record, and with no other check's
\* line; UpdateUser is not called and the registry is left as it was.
C8_FirstFailingCheckOnly ==
    [][(reqsLeft' < reqsLeft /\ IsUseraddPost(req') /\ FirstFailing(req', users) # 0) =>
          /\ hpc' = "responded"
          /\ SelectSeq(resp'.body, NotParseNotice)
                = <<CheckLine(FirstFailing(req', users), req')>>
          /\ updateCalls' = updateCalls
          /\ users' = users]_vars

\* C8 witness: a request with a good credential, no name and an invalid
\* level was answered "Must submit name".
C8_Witness ==
    /\ hpc = "responded"
    /\ IsUseraddPost(req)
    /\ req.passkey = "pk1"
    /\ req.name = ""
    /\ req.userType = "bogus"
    /\ resp.body = <<Line("Must submit name", "", "")>>
    /\ updateCalls = <<>>

\* C9: the call of UpdateUser carries the credential's operator code and
\* badge identifier, and when the registry applies it the record of that
\* badge holds the submitted name, contact information and level and a zero
\* ValidFrom and ValidTo; no other record changes.
C9_UpdateSetsFieldsAndClearsWindow ==
    [][(hpc = "update" /\ hpc' = "responded") =>
          LET onetime == OnetimeStore[req.passkey]
              call    == updateCalls'[Len(updateCalls')]
          IN  /\ Len(updateCalls') = Len(updateCalls) + 1
              /\ call.authUserCode = onetime.authUserCode
              /\ call.rfid = onetime.rfid
              /\ DOMAIN users' = DOMAIN users
              /\ \A r \in DOMAIN users : r # onetime.rfid => users'[r] = users[r]
              /\ call.applied =>
                    users'[onetime.rfid] =
                        [Name |-> req.name,
                         ContactInfo |-> req.contactInfo,
                         UserLevel |-> req.userType,
                         ValidFrom |-> 0,
                         ValidTo |-> 0]]_vars

\* C9 witness: the time-boxed record of r1 was updated through pk1.
C9_Witness ==
    /\ hpc = "responded"
    /\ req.passkey = "pk1"
    /\ Len(updateCalls) = 1
    /\ updateCalls[1].applied
    /\ "r1" \in DOMAIN users
    /\ users["r1"].Name = "Alice"
    /\ users["r1"].ValidTo = 0

\* C10 (as claimed): every response to a GET or POST of /useradd has
\* status 200.
C10_UseraddAlwaysStatusOK ==
    (hpc = "responded" /\ req.path = "/useradd" /\ req.method \in {"GET", "POST"})
        => resp.status = 200

\* C10 (amended): every response to a POST of /useradd has status 200,
\* whatever its outcome; a GET of /useradd is answered 405.
C10_UseraddPostStatusOK ==
    (hpc = "responded" /\ req.path = "/useradd") =>
        /\ req.method = "POST" => resp.status = 200
        /\ req.method = "GET" => resp.status = 405

\* C10 witness: a POST of /useradd without passkey was answered, with
\* status 200.
C10_Witness ==
    /\ hpc = "responded"
    /\ IsUseraddPost(req)
    /\ req.passkey = ""
    /\ resp.status = 200
    /\ resp.body # <<>>

\* The request was refused by the routing named in C11: a method other than
\* GET and POST, a POST of "/", or a path that is not served.
ListedRoutingFailure(r) ==
    \/ r.method \notin {"GET", "POST"}
    \/ r.method = "POST" /\ r.path = "/"
    \/ r.path \notin {"/", "/useradd", "/api/events"}

Served == hpc \in {"update", "responded"}

\* C11 (as claimed): a served request whose answer has status 404 or 405
\* is one with a method other than GET and POST, a POST of "/", or one for
\* an unknown path.
C11_OnlyListedRoutingFailures ==
    (Served /\ resp.status \in {404, 405}) => ListedRoutingFailure(req)

\* C11 (amended): the answer is a function of method and path: 405 with an
\* empty body for a method other than GET and POST; otherwise the UI for
\* GET / and 405 for POST /, enrollment for /useradd (405 unless the method
\* is POST), the event feed for /api/events, 404 with the fixed hint for
\* any other path; no other request is answered 404 or 405.
C11_RoutingTable ==
    Served =>
        /\ req.method \notin {"GET", "POST"} =>
              resp = [status |-> 405, body |-> <<>>]
        /\ req.method \in {"GET", "POST"} =>
              /\ req.path = "/" =>
                    /\ req.method = "GET" =>
                          resp = Written(<<Line("static/index.htm", "", "")>>)
                    /\ req.method = "POST" => resp.status = 405
              /\ req.path = "/useradd" =>
                    /\ req.method = "GET" => resp.status = 405
                    /\ req.method = "POST" =>
                          /\ resp.status = 200
                          /\ \/ hpc = "update"
                             \/ resp.body # <<>>
              /\ req.path = "/api/events" =>
                    resp = Written(<<Line("event feed", "", "")>>)
              /\ req.path \notin {"/", "/useradd", "/api/events"} =>
                    resp = [status |-> 404, body |-> <<NothingToSee>>]
        /\ resp.status \in {404, 405} <=>
              \/ ListedRoutingFailure(req)
              \/ req.method = "GET" /\ req.path = "/useradd"

\* C11 witness: the second request served, a GET of an unknown path, was
\* answered 404 with the hint.
C11_Witness ==
    /\ hpc = "responded"
    /\ reqsLeft = 0
    /\ req.method = "GET"
    /\ req.path = "/other"
    /\ resp.status = 404
    /\ resp.body = <<NothingToSee>>

\* C16: on every feed connection, each event written during the history
\* replay carries IsHistoricEvent = TRUE and each event written during the
\* live tail carries IsHistoricEvent = FALSE.
C16_HistoricMarkMatchesPhase ==
    \A c \in Clients :
        \A i \in 1..Len(out[c]) :
            /\ IsReplay(out[c][i]) => out[c][i].jev.IsHistoricEvent
            /\ IsTail(out[c][i]) => ~out[c][i].jev.IsHistoricEvent

\* C16 witness: a connection was sent a replayed event and then a live
\* event of the same type, while the updater is storing an event.
C16_Witness ==
    \E c \in Clients :
        /\ Len(out[c]) >= 2
        /\ IsReplay(out[c][1])
        /\ IsTail(out[c][Len(out[c])])
        /\ out[c][1].jev.Ev = out[c][Len(out[c])].jev.Ev
        /\ upc = "locked"

\* Handler c has copied the cache and has not failed or returned since: it
\* replays the copy, is about to subscribe, or is in its live tail.
PastSnapshot(c) ==
    /\ pc[c] \in {"replay", "replayWrite", "subscribe", "tail", "tailWrite"}
    /\ ~failed[c]

\* C19 (as claimed): an encodable event posted after a handler has copied
\* the cache reaches that handler: it is queued on the handler's channel,
\* from where the live tail writes it, unless the channel is full.
C19_NoEventLostAcrossHandover ==
    [][\A c \in Clients :
          (/\ PastSnapshot(c)
           /\ Len(published') = Len(published) + 1
           /\ Encodes(published'[Len(published')])
           /\ Len(chan[c]) < ChanCap) =>
              chan'[c] = Append(chan[c], published'[Len(published')])]_vars

\* The answer ends with the "Successfully added ..." line.
SaysSuccess(rsp) ==
    /\ rsp.body # <<>>
    /\ rsp.body[Len(rsp.body)].text = "Successfully added"

\* C20 (as claimed): an answer to a POST of /useradd that ends with
\* "Successfully added ..." follows a call of UpdateUser that applied the
\* update.
C20_SuccessOnlyIfUpdateApplied ==
    (hpc = "responded" /\ IsUseraddPost(req) /\ SaysSuccess(resp)) =>
        /\ updateCalls # <<>>
        /\ updateCalls[Len(updateCalls)].applied

\* C12: whenever IsExpired(now) has been asked of a credential made by
\* NewOnetime(T, ...), the answer was FALSE if now <= T + 2 minutes and
\* TRUE if now > T + 2 minutes.
C12_ExpiredStrictlyAfterTwoMinutes ==
    (opc = "made" /\ queriedAt # -1) =>
        /\ queriedAt <= issue.now + 2 * Minute => ~expired
        /\ queriedAt > issue.now + 2 * Minute => expired

\* C12 witness: a credential was asked exactly two minutes after it was
\* issued, and was not expired.
C12_Witness ==
    /\ opc = "made"
    /\ queriedAt = issue.now + 2 * Minute
    /\ ~expired

\* A step by which a call of genPass returns.
GenPassReturns == Len(gstack') < Len(gstack)

\* C13: the phrase a call of genPass returns is no longer than maxLCDCols,
\* and is empty if the generator invocation of that call reported a
\* failure.
C13_ReturnedPhraseFits ==
    [][GenPassReturns =>
          /\ Len(gret') <= maxLCDCols
          /\ Top(gstack).err => gret' = <<>>]_vars

\* C13 witness: the outermost genPass has returned the phrase of its
\* third generator invocation, the first two having been too long.
C13_Witness ==
    /\ opc = "genPass"
    /\ gstack = <<>>
    /\ Len(results) = 3
    /\ Len(results[1].pass) > maxLCDCols
    /\ Len(results[2].pass) > maxLCDCols
    /\ gret = results[3].pass
    /\ Len(gret) = maxLCDCols

\* The generator has returned a phrase that fits the display.
FittingPhraseReturned ==
    \E k \in 1..Len(results) : Len(results[k].pass) <= maxLCDCols

\* C18: once the generator has returned a phrase of length at most
\* maxLCDCols, NewOnetime returns; and NewOnetime does not return unless
\* the generator has, failures or not.
C18_TerminatesIffPhraseFits ==
    /\ (opc = "genPass" /\ FittingPhraseReturned) ~> (opc = "made")
    /\ [](opc = "made" => FittingPhraseReturned)

\* C18 witness: the generator has returned an over-length phrase and a
\* failure at each of its invocations, and genPass is still recursing.
C18_Witness ==
    /\ opc = "genPass"
    /\ Len(results) = MaxGenCalls
    /\ \A k \in 1..Len(results) :
          Len(results[k].pass) > maxLCDCols /\ results[k].err
    /\ Len(gstack) = MaxGenCalls + 1

\* Cycles elapsed since the start time the last call of Tone recorded.
Elapsed == (clock - tnow) % CycleRange

\* A step of the compare-match interrupt taken after Tone has returned:
\* no call is in progress before or after it and the counter stands.
InterruptAfterTone ==
    /\ ocie2
    /\ tpc = "idle"
    /\ tpc' = "idle"
    /\ clock' = clock

\* C14: after Tone has returned, a compare-match interrupt toggles the pin
\* and stays enabled if the cycles elapsed since the recorded start time
\* are fewer than the recorded duration; otherwise it disables itself and
\* leaves the pin low; and while the interrupt is disabled the pin does not
\* change.
C14_TogglesThenStopsLow ==
    [][/\ InterruptAfterTone =>
             IF Elapsed < duration_cycles
             THEN pin' = ~pin /\ ocie2'
             ELSE ~pin' /\ ~ocie2'
       /\ ~ocie2 => pin' = pin]_vars

\* C14 witness: the time of a tone is up while the pin is high and the
\* interrupt still enabled, after the pin was toggled during that tone.
C14_Witness ==
    /\ tpc = "idle"
    /\ tonesLeft < MaxTones
    /\ ocie2
    /\ pin
    /\ duration_cycles > 0
    /\ Elapsed >= duration_cycles

\* C15: a call of Tone made while a tone sounds returns with the interrupt
\* enabled and with the duration and start time it recorded in force,
\* whether or not the interrupt ran during the call; from then on the
\* interrupt stops the tone exactly when the cycles elapsed since that
\* start time are no fewer than that duration.
C15_SecondToneSupersedes ==
    [][/\ (tpc = "on" /\ tpc' = "idle" /\ overlap # "none") =>
             /\ ocie2'
             /\ wait_time_' = duration_cycles
             /\ start_time_' = tnow
       /\ (InterruptAfterTone /\ overlap # "none") =>
             /\ wait_time_ = duration_cycles
             /\ start_time_ = tnow
             /\ ~ocie2' <=> Elapsed >= duration_cycles]_vars

\* C15 witness: the second call of Tone, made while the first tone
\* sounded, has returned; the interrupt ran during it and disabled itself,
\* and is enabled again.
C15_Witness ==
    /\ tonesLeft = MaxTones - 2
    /\ tpc = "idle"
    /\ overlap = "stopped"
    /\ ocie2
    /\ ~pin
    /\ Elapsed < duration_cycles

\* The generator is silent and idle.
ToneIdle == ~ocie2 /\ ~pin

\* C17 (as claimed): if from some point on a call of Tone has returned and
\* none is made any more, the generator is eventually idle for good; and
\* the pin is low whenever the interrupt is disabled.
C17_ToneEventuallyIdle ==
    /\ <>[](tpc = "idle" /\ tonesLeft < MaxTones) => <>[]ToneIdle
    /\ [](~ocie2 => ~pin)

====
